---------------------------- MODULE Spec2Model ----------------------------
(***************************************************************************)
(* Model of the PgBouncer failover layer of apps/server/src/db:            *)
(*   FailoverPoolManager      (failover-pool.ts)                           *)
(*   FailoverConnectionManager (drivers/failover-connection-manager.ts)    *)
(*   ResilientConnection      (resilient-connection.ts)                    *)
(*   ResilientPostgresDriver  (resilient-driver.ts)                        *)
(*   TimeoutDriver / TimeoutConnection (timeout-driver.ts,                 *)
(*                                      timeout-connection.ts)             *)
(*                                                                         *)
(* Time is counted in units of 1000 ms; the timeouts and intervals of the   *)
(* source are multiples of it.  A timestamp t stored by the code           *)
(* (Date.now()) is kept as the age Date.now() - t, saturated just above    *)
(* the largest value it is compared with, so that time can pass without    *)
(* bound.  The breakers, the retry and the timeout policies are those of   *)
(* the cockatiel library, which the code calls.                            *)
(*                                                                         *)
(* One JavaScript thread runs the code: a step of the model is the code    *)
(* that runs between two awaits.  Continuations of settled promises        *)
(* (microtasks) run before any timer or I/O callback (MicrotaskPending).   *)
(***************************************************************************)
EXTENDS Integers, Sequences, FiniteSets, TLC

\* ------------------------------------------------------------- bounds
MaxEndpoints == 3
NumCallers == 2
NumFailovers == 2
MaxRows == 1
OneHealthyEndpoints == 2
AllDownEndpoints == 2
PoolMax == 2
MaxClientEndpoints == 3
MaxPriority == 3
MaxListed == 2

\* ------------------------------------------------- program constants
ConnectionTimeoutMillis == 5
IntervalMs == 5
RetryAfterMs == 6
HalfOpenAfter == 4
ConsecutiveFailures == 3
MaxAttempts == 3
DrvHalfOpenAfter == 6
DrvConsecutiveFailures == 2
StatelessHalfOpenAfter == 2
TimeoutMs == 5
ConnectTimeout == 10
ClientEndpoints == 3

Callers == 1 .. NumCallers
Slots == 1 .. MaxEndpoints

\* The statements executeQuery is called with.
ExecOps == {"query", "begin", "commit", "rollback"}

VARIABLES
  n,              \* this.endpoints.length
  up,             \* environment: up[e] iff the PgBouncer behind endpoint e accepts connections
  isStateless,    \* environment: isStatelessEnvironment (AWS_LAMBDA_FUNCTION_NAME is set)
  currentIndex,   \* FailoverPoolManager.currentIndex
  healthStatus,   \* FailoverPoolManager.healthStatus
  sinceCheck,     \* Date.now() - lastHealthCheck.get(key), saturated at RetryAfterMs + 1
  breaker,        \* FailoverPoolManager.circuitBreakers: state, failure count, age of openedAt
  sinceProbe,     \* time since the setInterval timer of performHealthChecks fired last
  probing,        \* endpoints whose pool.query("SELECT 1") of the current cycle is in flight
  checkedOut,     \* per endpoint: clients obtained by pool.connect() and not yet released
  drv,            \* ResilientPostgresDriver.policy: the breaker of wrap(retry, breaker, timeout)
  pc,             \* per caller: where its operation is suspended
  op,             \* per caller: "none", "stream", or the statement of its executeQuery
  i,              \* per caller: loop counter i of getConnection
  key,            \* per caller: endpoint being attempted or whose client is held (0: none)
  adm,            \* per caller: how the endpoint breaker admitted the pool.connect in flight
  age,            \* per caller: time since its pool.connect in flight started
  attempts,       \* per caller: pool.connect calls its getConnection in progress has made
  elapsed,        \* per caller: time since its getConnection in progress was called
  rows,           \* per caller: rows of the stream not yet yielded
  attempt,        \* per caller: the retry policy's count of retries of this executeQuery
  execs,          \* per caller: times the retry policy has called the policies it wraps
  dadm,           \* per caller: how the driver's breaker admitted the attempt in flight
  result,         \* per caller: how its last attempt or its operation ended ("none": not yet)
  tx,             \* per caller: state of the transaction it runs through the driver
  tdPc,           \* per caller of the TimeoutDriver: where it is suspended
  tdTimer,        \* per caller: time since the timeout policy it waits in was entered
  acquire,        \* per caller: the wrapped driver's acquireConnection() it started
  acquireAge,     \* per caller: time since that acquireConnection() was called
  stmt,           \* per caller: the wrapped executeQuery() in flight on its connection
  reserved,       \* connections reserved from the wrapped driver and not released
  endpoints,      \* ResilientDatabaseClient.endpoints, as the constructor sorted it
  reachable,      \* environment: the registered endpoints whose testConnection() succeeds
  initPc,         \* where initializePrimaryConnection is suspended or how it ended
  initI,          \* loop counter i of initializePrimaryConnection
  currentEndpointIndex,  \* ResilientDatabaseClient.currentEndpointIndex
  activePoolKey,  \* ResilientDatabaseClient.activePoolKey (0: null)
  db,             \* ResilientDatabaseClient.db: the key of the pool its Kysely is built on (0: null)
  pools,          \* ResilientDatabaseClient.pools: per key "none" (not in the map), "live",
                  \* or "ended" (in the map, end() called on the pool)
  fPc,            \* per attemptFailover call: where it is suspended
  startIndex,     \* per attemptFailover call: its startIndex
  failoverAttempts,  \* per attemptFailover call: its attempts
  tested,         \* per attemptFailover call: index of the endpoint whose test it awaits
  oldPoolKey,     \* per attemptFailover call: its oldPoolKey
  timerOn,        \* FailoverPoolManager.healthCheckInterval is set and not cleared
  ended,          \* per endpoint: end() has been called on its pool
  destroyPc,      \* where destroy() is suspended, or "none" (not called), "done"
  destroyI        \* pools destroy() has called end() on

envVars == <<n, up, isStateless>>
mgrVars == <<currentIndex, healthStatus, sinceCheck, breaker, sinceProbe, probing, checkedOut>>
callVars == <<pc, op, i, key, adm, age, attempts, elapsed, rows, attempt, execs, dadm, result, tx>>
tdVars == <<tdPc, tdTimer, acquire, acquireAge, stmt, reserved>>
failVars == <<fPc, startIndex, failoverAttempts, tested, oldPoolKey>>
clientVars == <<endpoints, reachable, initPc, initI, currentEndpointIndex, activePoolKey, db, pools, failVars>>
lifeVars == <<timerOn, ended, destroyPc, destroyI>>
vars == <<envVars, mgrVars, drv, callVars, tdVars, clientVars, lifeVars>>

Eps == 1 .. n

Min(a, b) == IF a < b THEN a ELSE b

\* ------------------------------------------------------ circuit breaker
\* cockatiel's circuitBreaker(handleAll, {halfOpenAfter, breaker: new ConsecutiveBreaker(k)})
ClosedBreaker == [state |-> "closed", count |-> 0, since |-> 0]

\* A breaker that lets a call through as soon as it has opened.
Admit_NoDelay(b, halfOpenAfter) ==
  CASE b.state = "closed" -> [decision |-> "run", b |-> b]
    [] b.state = "open" -> [decision |-> "trial", b |-> [b EXCEPT !.state = "halfOpen"]]
    [] b.state = "halfOpen" -> [decision |-> "wait", b |-> b]

\* A breaker that never leaves the open state.
Admit_NoHalfOpen(b, halfOpenAfter) ==
  CASE b.state = "closed" -> [decision |-> "run", b |-> b]
    [] b.state = "open" -> [decision |-> "reject", b |-> b]
    [] b.state = "halfOpen" -> [decision |-> "wait", b |-> b]

\* CircuitBreakerPolicy.execute, up to the call of fn: what happens to a caller
\* that finds the breaker b.
Admit(b, halfOpenAfter) ==
  CASE b.state = "closed" -> [decision |-> "run", b |-> b]
    [] b.state = "open" /\ b.since < halfOpenAfter -> [decision |-> "reject", b |-> b]
    [] b.state = "open" /\ b.since >= halfOpenAfter ->
         [decision |-> "trial", b |-> [b EXCEPT !.state = "halfOpen"]]
    [] b.state = "halfOpen" -> [decision |-> "wait", b |-> b]

\* CircuitBreakerPolicy.open(): no effect on a breaker already open.
Open(b) == IF b.state = "open" THEN b ELSE [b EXCEPT !.state = "open", !.since = 0]

\* CircuitBreakerPolicy.close(): only a half-open breaker closes.
Close(b) == IF b.state = "halfOpen" THEN [b EXCEPT !.state = "closed", !.since = 0] ELSE b

\* ConsecutiveBreaker.failure(): ++count >= threshold.  The count is kept
\* saturated at the threshold, the only value it is compared with.
CountFailure(b, threshold) == [b EXCEPT !.count = Min(b.count + 1, threshold)]

\* CircuitBreakerPolicy.execute after fn settled: `how` is the branch that
\* admitted fn ("run": the breaker was closed, "trial": the half-open test).
OnResult(b, how, success, threshold) ==
  IF how = "trial"
    THEN IF success THEN Close([b EXCEPT !.count = 0])
                    ELSE Open(CountFailure(b, threshold))
    ELSE IF success THEN [b EXCEPT !.count = 0]
                    ELSE LET f == CountFailure(b, threshold)
                         IN IF f.count >= threshold THEN Open(f) ELSE f

\* --------------------------------------------------- FailoverPoolManager
\* FailoverConnectionManager is FailoverPoolManager with the branches on
\* isStatelessEnvironment; FailoverPoolManager is the case isStateless = FALSE.

\* circuitBreaker.halfOpenAfter of the endpoints' breakers.
HalfOpenAfterMs == IF isStateless THEN StatelessHalfOpenAfter ELSE HalfOpenAfter

\* An eligibility check that looks at the health mark alone.
ShouldRetryEndpoint_HealthOnly(hs, e) == hs[e]

\* An eligibility check that takes the grace period as over when
\* retryAfterMs has passed, not only when more has.
ShouldRetryEndpoint_GraceInclusive(hs, e) ==
  \/ isStateless
  \/ hs[e]
  \/ sinceCheck[e] >= RetryAfterMs

ShouldRetryEndpoint(hs, e) ==
  \/ isStateless
  \/ hs[e]
  \/ sinceCheck[e] > RetryAfterMs

\* The iterations of getConnection's loop that end in `continue` without an
\* await: from cursor idx with k iterations done, the cursor and iteration
\* count at the first endpoint that is attempted, or at the end of the loop.
RECURSIVE SkipRun(_, _, _)
SkipRun(hs, idx, k) ==
  IF k < n /\ ~ShouldRetryEndpoint(hs, idx + 1)
    THEN SkipRun(hs, (idx + 1) % n, k + 1)
    ELSE <<idx, k>>

PcOfDecision(d) ==
  CASE d = "run" -> "connecting"
    [] d = "trial" -> "connecting"
    [] d = "reject" -> "rejected"
    [] d = "wait" -> "waiting"

\* getConnection from the top of an iteration to its next await: hs, idx, k
\* are healthStatus, currentIndex and i as the code before left them, in
\* the call's first lines or in a catch block.
Continue(c, hs, idx, k) ==
  LET r == SkipRun(hs, idx, k)
      e == r[1] + 1
      d == Admit(breaker[e], HalfOpenAfterMs)
      connects == r[2] < n /\ d.decision \in {"run", "trial"}
      called == pc[c] \notin {"connErr", "rejected"}
  IN /\ currentIndex' = r[1]
     /\ i' = [i EXCEPT ![c] = r[2]]
     /\ age' = [age EXCEPT ![c] = 0]
     /\ attempts' = [attempts EXCEPT ![c] =
                       (IF called THEN 0 ELSE @) + (IF connects THEN 1 ELSE 0)]
     /\ elapsed' = [elapsed EXCEPT ![c] = IF called THEN 0 ELSE @]
     /\ IF r[2] >= n
          THEN /\ healthStatus' = hs
               /\ breaker' = breaker
               /\ pc' = [pc EXCEPT ![c] = "unavailable"]
               /\ key' = [key EXCEPT ![c] = 0]
               /\ adm' = [adm EXCEPT ![c] = "none"]
          ELSE /\ healthStatus' = IF isStateless THEN hs ELSE [hs EXCEPT ![e] = TRUE]
               /\ breaker' = [breaker EXCEPT ![e] = d.b]
               /\ pc' = [pc EXCEPT ![c] = PcOfDecision(d.decision)]
               /\ key' = [key EXCEPT ![c] = e]
               /\ adm' = [adm EXCEPT ![c] =
                            IF d.decision \in {"run", "trial"} THEN d.decision ELSE "none"]

\* The error getConnection throws after its loop: a plain Error built from
\* the message alone; the errors caught in the loop were logged and dropped.
UnavailableError ==
  [name |-> "Error", message |-> "All PgBouncer instances are unavailable", cause |-> "none"]

\* A continuation is queued behind a promise that has settled: it runs before
\* any timer or I/O callback.
MicrotaskPending ==
  \E c \in Callers :
    pc[c] \in {"connErr", "rejected", "woken", "unavailable", "drvRejected", "drvWoken", "done"}

\* A manager with one breaker state for all its endpoints.
ConnectSettles_SharedBreaker(c) ==
  /\ pc[c] = "connecting"
  /\ ~MicrotaskPending
  /\ LET e == key[c]
         ok == up[e]
     IN /\ breaker' = [f \in Slots |-> OnResult(breaker[f], adm[c], ok, ConsecutiveFailures)]
        /\ checkedOut' = [checkedOut EXCEPT ![e] = IF ok THEN @ + 1 ELSE @]
        /\ pc' = [x \in Callers |->
                    IF x = c THEN (IF ok THEN "querying" ELSE "connErr")
                    ELSE IF adm[c] = "trial" /\ pc[x] = "waiting" /\ key[x] = e
                           THEN "woken" ELSE pc[x]]
        /\ adm' = [adm EXCEPT ![c] = "none"]
        /\ age' = [age EXCEPT ![c] = 0]
        /\ i' = [i EXCEPT ![c] = IF ok THEN 0 ELSE @]
        /\ attempts' = [attempts EXCEPT ![c] = IF ok THEN 0 ELSE @]
        /\ elapsed' = [elapsed EXCEPT ![c] = IF ok THEN 0 ELSE @]
  /\ UNCHANGED <<lifeVars, clientVars, tdVars, envVars, currentIndex, healthStatus, sinceCheck, sinceProbe, probing, drv,
                 op, key, rows, attempt, execs, dadm, result, tx>>

\* pool.connect() of caller c settles.  It succeeds iff the endpoint is up; it
\* fails at the latest when connectionTimeoutMillis has passed.
ConnectSettles(c) ==
  /\ pc[c] = "connecting"
  /\ ~MicrotaskPending
  /\ LET e == key[c]
         ok == up[e]
     IN /\ breaker' = [breaker EXCEPT ![e] = OnResult(@, adm[c], ok, ConsecutiveFailures)]
        /\ checkedOut' = [checkedOut EXCEPT ![e] = IF ok THEN @ + 1 ELSE @]
        /\ pc' = [x \in Callers |->
                    IF x = c THEN (IF ok THEN "querying" ELSE "connErr")
                    ELSE IF adm[c] = "trial" /\ pc[x] = "waiting" /\ key[x] = e
                           THEN "woken" ELSE pc[x]]
        /\ adm' = [adm EXCEPT ![c] = "none"]
        /\ age' = [age EXCEPT ![c] = 0]
        /\ i' = [i EXCEPT ![c] = IF ok THEN 0 ELSE @]
        /\ attempts' = [attempts EXCEPT ![c] = IF ok THEN 0 ELSE @]
        /\ elapsed' = [elapsed EXCEPT ![c] = IF ok THEN 0 ELSE @]
  /\ UNCHANGED <<lifeVars, clientVars, tdVars, envVars, currentIndex, healthStatus, sinceCheck, sinceProbe, probing, drv,
                 op, key, rows, attempt, execs, dadm, result, tx>>

\* A catch block that leaves the loop counter as it is.
CatchConnectError_NoCount(c) ==
  /\ pc[c] = "connErr"
  /\ Continue(c, IF isStateless THEN healthStatus ELSE [healthStatus EXCEPT ![key[c]] = FALSE],
              (currentIndex + 1) % n, i[c])
  /\ UNCHANGED <<lifeVars, clientVars, tdVars, envVars, sinceCheck, sinceProbe, probing, checkedOut, drv,
                 op, rows, attempt, execs, dadm, result, tx>>

\* A catch block that moves the cursor on without wrapping it around.
CatchConnectError_NoWrap(c) ==
  /\ pc[c] = "connErr"
  /\ Continue(c, IF isStateless THEN healthStatus ELSE [healthStatus EXCEPT ![key[c]] = FALSE],
              currentIndex + 1, i[c] + 1)
  /\ UNCHANGED <<lifeVars, clientVars, tdVars, envVars, sinceCheck, sinceProbe, probing, checkedOut, drv,
                 op, rows, attempt, execs, dadm, result, tx>>

\* A catch block that leaves the health mark of the failed endpoint alone.
CatchConnectError_KeepsHealth(c) ==
  /\ pc[c] = "connErr"
  /\ Continue(c, healthStatus, (currentIndex + 1) % n, i[c] + 1)
  /\ UNCHANGED <<lifeVars, clientVars, tdVars, envVars, sinceCheck, sinceProbe, probing, checkedOut, drv,
                 op, rows, attempt, execs, dadm, result, tx>>

\* The catch block of getConnection after a failed pool.connect().
CatchConnectError(c) ==
  /\ pc[c] = "connErr"
  /\ Continue(c, IF isStateless THEN healthStatus ELSE [healthStatus EXCEPT ![key[c]] = FALSE],
              (currentIndex + 1) % n, i[c] + 1)
  /\ UNCHANGED <<lifeVars, clientVars, tdVars, envVars, sinceCheck, sinceProbe, probing, checkedOut, drv,
                 op, rows, attempt, execs, dadm, result, tx>>

\* The catch block of getConnection after a BrokenCircuitError.
CatchBrokenCircuit(c) ==
  /\ pc[c] = "rejected"
  /\ Continue(c, healthStatus, (currentIndex + 1) % n, i[c] + 1)
  /\ UNCHANGED <<lifeVars, clientVars, tdVars, envVars, sinceCheck, sinceProbe, probing, checkedOut, drv,
                 op, rows, attempt, execs, dadm, result, tx>>

\* A caller that waited for the half-open test runs breaker.execute again.
Reexecute(c) ==
  /\ pc[c] = "woken"
  /\ LET e == key[c]
         d == Admit(breaker[e], HalfOpenAfterMs)
     IN /\ breaker' = [breaker EXCEPT ![e] = d.b]
        /\ pc' = [pc EXCEPT ![c] = PcOfDecision(d.decision)]
        /\ adm' = [adm EXCEPT ![c] =
                     IF d.decision \in {"run", "trial"} THEN d.decision ELSE "none"]
        /\ attempts' = [attempts EXCEPT ![c] =
                          IF d.decision \in {"run", "trial"} THEN @ + 1 ELSE @]
  /\ UNCHANGED <<lifeVars, clientVars, tdVars, envVars, currentIndex, healthStatus, sinceCheck, sinceProbe, probing,
                 checkedOut, drv, op, i, key, age, elapsed, rows, attempt, execs, dadm, result, tx>>

\* client.release() in a finally block.
Release(c) ==
  /\ checkedOut' = [checkedOut EXCEPT ![key[c]] = @ - 1]
  /\ key' = [key EXCEPT ![c] = 0]

\* What client.query can settle with on endpoint e.
QueryResults(e) == IF up[e] THEN {"ok", "statementError"} ELSE {"connectionError"}

\* ------------------------------------------------ ResilientConnection
\* streamQuery up to its first await: getConnection() is entered.
StreamStart(c) ==
  /\ pc[c] = "idle"
  /\ tx[c] = "none"
  /\ ~MicrotaskPending
  /\ op' = [op EXCEPT ![c] = "stream"]
  /\ Continue(c, healthStatus, currentIndex, 0)
  /\ UNCHANGED <<lifeVars, clientVars, tdVars, envVars, sinceCheck, sinceProbe, probing, checkedOut, drv,
                 rows, attempt, execs, dadm, result, tx>>

\* getConnection threw "All PgBouncer instances are unavailable" into
\* streamQuery, which is outside its try block.
StreamUnavailable(c) ==
  /\ pc[c] = "unavailable"
  /\ op[c] = "stream"
  /\ pc' = [pc EXCEPT ![c] = "done"]
  /\ result' = [result EXCEPT ![c] = "unavailable"]
  /\ i' = [i EXCEPT ![c] = 0]
  /\ attempts' = [attempts EXCEPT ![c] = 0]
  /\ elapsed' = [elapsed EXCEPT ![c] = 0]
  /\ UNCHANGED <<lifeVars, clientVars, tdVars, envVars, mgrVars, drv, op, key, adm, age, rows, attempt, execs, dadm, tx>>

\* client.query settles inside streamQuery: rows are yielded one by one; with
\* no row, or on an error, the finally block releases the client.
StreamQuerySettles(c) ==
  /\ pc[c] = "querying"
  /\ op[c] = "stream"
  /\ ~MicrotaskPending
  /\ \E res \in QueryResults(key[c]), k \in 0 .. MaxRows :
       IF res = "ok" /\ k > 0
         THEN /\ pc' = [pc EXCEPT ![c] = "yielded"]
              /\ rows' = [rows EXCEPT ![c] = k - 1]
              /\ UNCHANGED <<checkedOut, key, result>>
         ELSE /\ k = 0
              /\ pc' = [pc EXCEPT ![c] = "done"]
              /\ result' = [result EXCEPT ![c] = res]
              /\ Release(c)
              /\ UNCHANGED rows
  /\ UNCHANGED <<lifeVars, clientVars, tdVars, envVars, currentIndex, healthStatus, sinceCheck, breaker, sinceProbe,
                 probing, drv, op, i, adm, age, attempts, elapsed, attempt, execs, dadm, tx>>

\* The consumer asks for the next row: another yield, or the loop ends and
\* the finally block releases the client.
StreamNext(c) ==
  /\ pc[c] = "yielded"
  /\ ~MicrotaskPending
  /\ IF rows[c] > 0
       THEN /\ rows' = [rows EXCEPT ![c] = @ - 1]
            /\ UNCHANGED <<pc, checkedOut, key, result>>
       ELSE /\ pc' = [pc EXCEPT ![c] = "done"]
            /\ result' = [result EXCEPT ![c] = "ok"]
            /\ Release(c)
            /\ UNCHANGED rows
  /\ UNCHANGED <<lifeVars, clientVars, tdVars, envVars, currentIndex, healthStatus, sinceCheck, breaker, sinceProbe,
                 probing, drv, op, i, adm, age, attempts, elapsed, attempt, execs, dadm, tx>>

\* A generator whose return() skips the finally block.
StreamReturn_NoRelease(c) ==
  /\ pc[c] = "yielded"
  /\ ~MicrotaskPending
  /\ pc' = [pc EXCEPT ![c] = "done"]
  /\ result' = [result EXCEPT ![c] = "return"]
  /\ rows' = [rows EXCEPT ![c] = 0]
  /\ key' = [key EXCEPT ![c] = 0]
  /\ UNCHANGED <<lifeVars, clientVars, tdVars, envVars, currentIndex, healthStatus, sinceCheck, breaker, sinceProbe,
                 probing, checkedOut, drv, op, i, adm, age, attempts, elapsed, attempt, execs, dadm, tx>>

\* The consumer abandons the sequence (break, or an exception in its loop
\* body): the iterator's return() runs the finally block.
StreamReturn(c) ==
  /\ pc[c] = "yielded"
  /\ ~MicrotaskPending
  /\ pc' = [pc EXCEPT ![c] = "done"]
  /\ result' = [result EXCEPT ![c] = "return"]
  /\ rows' = [rows EXCEPT ![c] = 0]
  /\ Release(c)
  /\ UNCHANGED <<lifeVars, clientVars, tdVars, envVars, currentIndex, healthStatus, sinceCheck, breaker, sinceProbe,
                 probing, drv, op, i, adm, age, attempts, elapsed, attempt, execs, dadm, tx>>

\* --------------------------------------- ResilientPostgresDriver.policy
\* policy.execute from the retry loop's call of the inner policies to the next
\* await: the driver's breaker admits the attempt, which then enters
\* getConnection, or it rejects it or makes it wait for the half-open test.
\* The timeout policy is cooperative and the attempt ignores its signal: the
\* attempt is never abandoned.
RunPolicy(c) ==
  LET d == Admit(drv, DrvHalfOpenAfter)
  IN /\ drv' = d.b
     /\ result' = [result EXCEPT ![c] = "none"]
     /\ IF d.decision \in {"run", "trial"}
          THEN /\ dadm' = [dadm EXCEPT ![c] = d.decision]
               /\ Continue(c, healthStatus, currentIndex, 0)
          ELSE /\ pc' = [pc EXCEPT ![c] =
                           IF d.decision = "reject" THEN "drvRejected" ELSE "drvWaiting"]
               /\ UNCHANGED <<currentIndex, healthStatus, breaker, i, key, adm, age, attempts, elapsed, dadm>>

\* A retry policy that gives up after one retry.
PcAfter_OneRetry(c, res) == IF res = "ok" \/ attempt[c] >= 1 THEN "done" ELSE "backoff"

\* The retry policy after an attempt ended with res: done on success and
\* after maxAttempts retries, else a backoff delay and one more attempt.
PcAfter(c, res) == IF res = "ok" \/ attempt[c] >= MaxAttempts THEN "done" ELSE "backoff"

\* The attempt of caller c settled with res: the driver's breaker counts it,
\* a half-open test wakes the callers that waited for it, the retry policy
\* decides.
AttemptSettles(c, res) ==
  /\ drv' = OnResult(drv, dadm[c], res = "ok", DrvConsecutiveFailures)
  /\ pc' = [x \in Callers |->
              IF x = c THEN PcAfter(c, res)
              ELSE IF dadm[c] = "trial" /\ pc[x] = "drvWaiting" THEN "drvWoken" ELSE pc[x]]
  /\ attempt' = [attempt EXCEPT ![c] = IF PcAfter(c, res) = "backoff" THEN @ + 1 ELSE @]
  /\ result' = [result EXCEPT ![c] = res]
  /\ dadm' = [dadm EXCEPT ![c] = "none"]
  /\ i' = [i EXCEPT ![c] = 0]
  /\ UNCHANGED execs

\* ResilientConnection.executeQuery up to its first await.
ExecStart(c, statement) ==
  /\ pc[c] = "idle"
  /\ ~MicrotaskPending
  /\ op' = [op EXCEPT ![c] = statement]
  /\ execs' = [execs EXCEPT ![c] = 1]
  /\ RunPolicy(c)
  /\ UNCHANGED <<lifeVars, clientVars, tdVars, envVars, sinceCheck, sinceProbe, probing, checkedOut, rows, attempt, tx>>

\* connection.executeQuery(compiledQuery) outside a transaction.
ExecuteQuery(c) ==
  /\ tx[c] = "none"
  /\ ExecStart(c, "query")

\* Driver.beginTransaction, commitTransaction, rollbackTransaction, called by
\* Kysely in this order: begin, the statements, commit; rollback after an
\* error of any of them.
BeginTransaction(c) ==
  /\ tx[c] = "none"
  /\ ExecStart(c, "begin")

CommitTransaction(c) ==
  /\ tx[c] = "active"
  /\ ExecStart(c, "commit")

RollbackTransaction(c) ==
  /\ tx[c] \in {"active", "failed"}
  /\ ExecStart(c, "rollback")

\* getConnection threw "All PgBouncer instances are unavailable" into the
\* attempt.
ExecUnavailable(c) ==
  /\ pc[c] = "unavailable"
  /\ op[c] \in ExecOps
  /\ AttemptSettles(c, "unavailable")
  /\ attempts' = [attempts EXCEPT ![c] = 0]
  /\ elapsed' = [elapsed EXCEPT ![c] = 0]
  /\ UNCHANGED <<lifeVars, clientVars, tdVars, envVars, mgrVars, op, key, adm, age, rows, tx>>

\* An executeQuery without the finally block.
ExecQuerySettles_NoRelease(c) ==
  /\ pc[c] = "querying"
  /\ op[c] \in ExecOps
  /\ ~MicrotaskPending
  /\ \E res \in QueryResults(key[c]) : AttemptSettles(c, res)
  /\ UNCHANGED <<checkedOut, key>>
  /\ UNCHANGED <<lifeVars, clientVars, tdVars, envVars, currentIndex, healthStatus, sinceCheck, breaker, sinceProbe,
                 probing, op, adm, age, attempts, elapsed, rows, tx>>

\* client.query settles inside executeQuery: the finally block releases the
\* client, then the attempt settles.
ExecQuerySettles(c) ==
  /\ pc[c] = "querying"
  /\ op[c] \in ExecOps
  /\ ~MicrotaskPending
  /\ \E res \in QueryResults(key[c]) : AttemptSettles(c, res)
  /\ Release(c)
  /\ UNCHANGED <<lifeVars, clientVars, tdVars, envVars, currentIndex, healthStatus, sinceCheck, breaker, sinceProbe,
                 probing, op, adm, age, attempts, elapsed, rows, tx>>

\* The driver's breaker threw BrokenCircuitError: to the retry policy one
\* more failed attempt.
DrvRejected(c) ==
  /\ pc[c] = "drvRejected"
  /\ pc' = [pc EXCEPT ![c] = PcAfter(c, "brokenCircuit")]
  /\ attempt' = [attempt EXCEPT ![c] = IF PcAfter(c, "brokenCircuit") = "backoff" THEN @ + 1 ELSE @]
  /\ result' = [result EXCEPT ![c] = "brokenCircuit"]
  /\ UNCHANGED execs
  /\ UNCHANGED <<lifeVars, clientVars, tdVars, envVars, mgrVars, drv, op, i, key, adm, age, attempts, elapsed, rows, dadm, tx>>

\* A caller that waited for the driver breaker's half-open test runs the
\* breaker's execute again.
DrvReexecute(c) ==
  /\ pc[c] = "drvWoken"
  /\ RunPolicy(c)
  /\ UNCHANGED <<lifeVars, clientVars, tdVars, envVars, sinceCheck, sinceProbe, probing, checkedOut, op, rows, attempt, execs, tx>>

\* The backoff delay of the retry policy is over: the next attempt.
BackoffDone(c) ==
  /\ pc[c] = "backoff"
  /\ ~MicrotaskPending
  /\ execs' = [execs EXCEPT ![c] = @ + 1]
  /\ RunPolicy(c)
  /\ UNCHANGED <<lifeVars, clientVars, tdVars, envVars, sinceCheck, sinceProbe, probing, checkedOut, op, rows, attempt, tx>>

\* How the transaction of a caller stands after its statement ended with res.
TxAfter(t, statement, res) ==
  CASE statement = "stream" -> t
    [] statement = "rollback" -> "none"
    [] statement = "commit" -> IF res = "ok" THEN "none" ELSE "failed"
    [] statement = "begin" -> IF res = "ok" THEN "active" ELSE "failed"
    [] statement = "query" -> IF t = "none" THEN "none" ELSE IF res = "ok" THEN "active" ELSE "failed"

\* The caller of executeQuery or streamQuery resumes with the result.
Settle(c) ==
  /\ pc[c] = "done"
  /\ pc' = [pc EXCEPT ![c] = "idle"]
  /\ tx' = [tx EXCEPT ![c] = TxAfter(@, op[c], result[c])]
  /\ op' = [op EXCEPT ![c] = "none"]
  /\ result' = [result EXCEPT ![c] = "none"]
  /\ attempt' = [attempt EXCEPT ![c] = 0]
  /\ execs' = [execs EXCEPT ![c] = 0]
  /\ UNCHANGED <<lifeVars, clientVars, tdVars, envVars, mgrVars, drv, i, key, adm, age, attempts, elapsed, rows, dadm>>

\* ---------------------------------- TimeoutDriver / TimeoutConnection
\* The program outside the timeout driver.
restVars == <<envVars, mgrVars, drv, callVars, clientVars, lifeVars>>

\* TimeoutDriver.acquireConnection up to its await: the wrapped driver's
\* acquireConnection() is called inside the aggressive timeout policy.
Acquire(c) ==
  /\ tdPc[c] = "idle"
  /\ acquire[c] = "none"
  /\ tdPc' = [tdPc EXCEPT ![c] = "acquiring"]
  /\ tdTimer' = [tdTimer EXCEPT ![c] = 0]
  /\ acquire' = [acquire EXCEPT ![c] = "pending"]
  /\ acquireAge' = [acquireAge EXCEPT ![c] = 0]
  /\ UNCHANGED <<restVars, stmt, reserved>>

\* The wrapped acquireConnection() settles: it reserved a connection of the
\* pool, or it failed.  The caller that still waits is handed the connection
\* as a TimeoutConnection; after the timeout nobody takes the result.
AcquireSettles(c) ==
  /\ acquire[c] # "none"
  /\ \E ok \in {b \in BOOLEAN : b => reserved < PoolMax} :
       /\ reserved' = IF ok THEN reserved + 1 ELSE reserved
       /\ tdPc' = [tdPc EXCEPT ![c] =
                     IF acquire[c] = "abandoned" THEN @ ELSE IF ok THEN "connected" ELSE "idle"]
  /\ acquire' = [acquire EXCEPT ![c] = "none"]
  /\ acquireAge' = [acquireAge EXCEPT ![c] = 0]
  /\ tdTimer' = [tdTimer EXCEPT ![c] = 0]
  /\ UNCHANGED <<restVars, stmt>>

\* The acquisition timeout fires first: acquireConnection throws
\* "Connection acquisition timeout", the wrapped call goes on.
AcquireTimeout(c) ==
  /\ tdPc[c] = "acquiring"
  /\ tdTimer[c] = TimeoutMs
  /\ tdPc' = [tdPc EXCEPT ![c] = "idle"]
  /\ tdTimer' = [tdTimer EXCEPT ![c] = 0]
  /\ acquire' = [acquire EXCEPT ![c] = "abandoned"]
  /\ UNCHANGED <<restVars, acquireAge, stmt, reserved>>

\* TimeoutConnection.executeQuery up to its await: the wrapped connection's
\* executeQuery() is called inside the aggressive timeout policy.
TimeoutExecute(c) ==
  /\ tdPc[c] = "connected"
  /\ tdPc' = [tdPc EXCEPT ![c] = "executing"]
  /\ tdTimer' = [tdTimer EXCEPT ![c] = 0]
  /\ stmt' = [stmt EXCEPT ![c] = "pending"]
  /\ UNCHANGED <<restVars, acquire, acquireAge, reserved>>

\* The wrapped executeQuery settles in time, with rows or an error.
TimeoutQuerySettles(c) ==
  /\ tdPc[c] = "executing"
  /\ tdPc' = [tdPc EXCEPT ![c] = "connected"]
  /\ tdTimer' = [tdTimer EXCEPT ![c] = 0]
  /\ stmt' = [stmt EXCEPT ![c] = "none"]
  /\ UNCHANGED <<restVars, acquire, acquireAge, reserved>>

\* The query timeout fires first: executeQuery throws "Query timeout" to the
\* caller, which still has the connection; the wrapped executeQuery() goes
\* on, its statement still running on the connection.
QueryTimeout(c) ==
  /\ tdPc[c] = "executing"
  /\ tdTimer[c] = TimeoutMs
  /\ tdPc' = [tdPc EXCEPT ![c] = "connected"]
  /\ tdTimer' = [tdTimer EXCEPT ![c] = 0]
  /\ stmt' = [stmt EXCEPT ![c] = "abandoned"]
  /\ UNCHANGED <<restVars, acquire, acquireAge, reserved>>

\* The wrapped executeQuery() that was left behind by the timeout settles:
\* nobody takes its result.
AbandonedSettles(c) ==
  /\ tdPc[c] \in {"idle", "connected"}
  /\ stmt[c] = "abandoned"
  /\ stmt' = [stmt EXCEPT ![c] = "none"]
  /\ UNCHANGED <<restVars, tdPc, tdTimer, acquire, acquireAge, reserved>>

\* TimeoutDriver.releaseConnection: the caller is done with its connection,
\* which goes back to the wrapped driver as it is, a statement the timeout
\* left behind still running on it.
ReleaseConnection(c) ==
  /\ tdPc[c] = "connected"
  /\ tdPc' = [tdPc EXCEPT ![c] = "idle"]
  /\ reserved' = reserved - 1
  /\ UNCHANGED <<restVars, tdTimer, acquire, acquireAge, stmt>>

\* One unit of time passes for the callers of the timeout driver; a timeout
\* that is due fires first.
TimeoutTick ==
  /\ \A c \in Callers : tdPc[c] \in {"acquiring", "executing"} => tdTimer[c] < TimeoutMs
  /\ \A c \in Callers : acquire[c] # "none" => acquireAge[c] < ConnectTimeout
  /\ \E c \in Callers : tdPc[c] \in {"acquiring", "executing"} \/ acquire[c] # "none"
  /\ tdTimer' = [c \in Callers |->
                   IF tdPc[c] \in {"acquiring", "executing"} THEN tdTimer[c] + 1 ELSE tdTimer[c]]
  /\ acquireAge' = [c \in Callers |->
                      IF acquire[c] # "none" THEN acquireAge[c] + 1 ELSE acquireAge[c]]
  /\ UNCHANGED <<restVars, tdPc, acquire, stmt, reserved>>

\* ------------------------------------------------------- health probes
\* The setInterval timer fires: performHealthChecks starts one
\* pool.query("SELECT 1") per pool.
ProbeStart ==
  /\ ~isStateless
  /\ timerOn
  /\ sinceProbe = IntervalMs
  /\ probing = {}
  /\ ~MicrotaskPending
  /\ sinceProbe' = 0
  /\ probing' = Eps
  /\ UNCHANGED <<lifeVars, clientVars, tdVars, envVars, currentIndex, healthStatus, sinceCheck, breaker, checkedOut, drv, callVars>>

\* A health check in which a failed probe ends the cycle for the endpoints
\* still being probed.
ProbeSettles_StopsCycle(e) ==
  /\ e \in probing
  /\ ~MicrotaskPending
  /\ probing' = IF up[e] /\ ~ended[e] THEN probing \ {e} ELSE {}
  /\ healthStatus' = [healthStatus EXCEPT ![e] = up[e] /\ ~ended[e]]
  /\ sinceCheck' = [sinceCheck EXCEPT ![e] = 0]
  /\ UNCHANGED <<lifeVars, clientVars, tdVars, envVars, currentIndex, breaker, sinceProbe, checkedOut, drv, callVars>>

\* The probe of endpoint e settles.
ProbeSettles(e) ==
  /\ e \in probing
  /\ ~MicrotaskPending
  /\ probing' = probing \ {e}
  /\ healthStatus' = [healthStatus EXCEPT ![e] = up[e] /\ ~ended[e]]
  /\ sinceCheck' = [sinceCheck EXCEPT ![e] = 0]
  /\ UNCHANGED <<lifeVars, clientVars, tdVars, envVars, currentIndex, breaker, sinceProbe, checkedOut, drv, callVars>>

\* pool.on("error"): an idle client of the pool lost its connection.
PoolError(e) ==
  /\ ~isStateless
  /\ e \in Eps
  /\ ~up[e]
  /\ healthStatus[e]
  /\ ~MicrotaskPending
  /\ healthStatus' = [healthStatus EXCEPT ![e] = FALSE]
  /\ UNCHANGED <<lifeVars, clientVars, tdVars, envVars, currentIndex, sinceCheck, breaker, sinceProbe, probing,
                 checkedOut, drv, callVars>>

\* --------------------------------------------------------- environment
Kill(e) ==
  /\ e \in Eps
  /\ up[e]
  /\ ~MicrotaskPending
  /\ up' = [up EXCEPT ![e] = FALSE]
  /\ UNCHANGED <<lifeVars, clientVars, tdVars, n, isStateless, mgrVars, drv, callVars>>

Restart(e) ==
  /\ e \in Eps
  /\ ~up[e]
  /\ ~MicrotaskPending
  /\ up' = [up EXCEPT ![e] = TRUE]
  /\ UNCHANGED <<lifeVars, clientVars, tdVars, n, isStateless, mgrVars, drv, callVars>>

\* One unit of time passes.  A timer that is due fires first: the probe
\* interval, pg's connectionTimeoutMillis of a connect or probe in flight.
Tick ==
  /\ ~MicrotaskPending
  /\ sinceProbe < IntervalMs
  /\ probing # {} => sinceProbe < ConnectionTimeoutMillis
  /\ \A c \in Callers : pc[c] = "connecting" => age[c] < ConnectionTimeoutMillis
  /\ sinceProbe' = sinceProbe + 1
  /\ sinceCheck' = [e \in Slots |->
                      IF e \in Eps THEN Min(sinceCheck[e] + 1, RetryAfterMs + 1) ELSE sinceCheck[e]]
  /\ breaker' = [e \in Slots |->
                   [breaker[e] EXCEPT !.since =
                      IF breaker[e].state = "open" THEN Min(@ + 1, HalfOpenAfterMs) ELSE @]]
  /\ drv' = [drv EXCEPT !.since = IF drv.state = "open" THEN Min(@ + 1, DrvHalfOpenAfter) ELSE @]
  /\ age' = [c \in Callers |-> IF pc[c] = "connecting" THEN age[c] + 1 ELSE age[c]]
  /\ elapsed' = [c \in Callers |->
                   IF pc[c] \in {"connecting", "waiting"} THEN elapsed[c] + 1 ELSE elapsed[c]]
  /\ UNCHANGED <<lifeVars, clientVars, tdVars, envVars, currentIndex, healthStatus, probing, checkedOut,
                 pc, op, i, key, adm, attempts, rows, attempt, execs, dadm, result, tx>>

\* Time passes until one timer is due, with the other timers left as they
\* are: the grace period of endpoint e's last health check, ...
GraceElapses(e) ==
  /\ e \in Eps
  /\ sinceCheck[e] <= RetryAfterMs
  /\ ~MicrotaskPending
  /\ sinceCheck' = [sinceCheck EXCEPT ![e] = RetryAfterMs + 1]
  /\ UNCHANGED <<lifeVars, clientVars, tdVars, envVars, currentIndex, healthStatus, breaker, sinceProbe, probing,
                 checkedOut, drv, callVars>>

\* ... halfOpenAfter of endpoint e's open breaker, ...
HalfOpenElapses(e) ==
  /\ e \in Eps
  /\ breaker[e].state = "open"
  /\ breaker[e].since < HalfOpenAfterMs
  /\ ~MicrotaskPending
  /\ breaker' = [breaker EXCEPT ![e].since = HalfOpenAfterMs]
  /\ UNCHANGED <<lifeVars, clientVars, tdVars, envVars, currentIndex, healthStatus, sinceCheck, sinceProbe, probing,
                 checkedOut, drv, callVars>>

\* ... halfOpenAfter of the driver's open breaker, ...
DrvHalfOpenElapses ==
  /\ drv.state = "open"
  /\ drv.since < DrvHalfOpenAfter
  /\ ~MicrotaskPending
  /\ drv' = [drv EXCEPT !.since = DrvHalfOpenAfter]
  /\ UNCHANGED <<lifeVars, clientVars, tdVars, envVars, mgrVars, callVars>>

\* ... the interval of the health check timer.
IntervalElapses ==
  /\ timerOn
  /\ sinceProbe < IntervalMs
  /\ ~MicrotaskPending
  /\ sinceProbe' = IntervalMs
  /\ UNCHANGED <<lifeVars, clientVars, tdVars, envVars, currentIndex, healthStatus, sinceCheck, breaker, probing,
                 checkedOut, drv, callVars>>

\* ------------------------------------------------------------- destroy
\* A destroy() that leaves the health check timer running.
Destroy_KeepsTimer ==
  /\ destroyPc = "none"
  /\ timerOn' = timerOn
  /\ IF n = 0
       THEN /\ destroyPc' = "done"
            /\ UNCHANGED <<ended, destroyI>>
       ELSE /\ ended' = [ended EXCEPT ![1] = TRUE]
            /\ destroyI' = 1
            /\ destroyPc' = "ending"
  /\ UNCHANGED <<envVars, mgrVars, drv, callVars, tdVars, clientVars>>

\* destroy() up to its first await: the timer is cleared, and end() is called
\* on the first pool.
Destroy ==
  /\ destroyPc = "none"
  /\ timerOn' = FALSE
  /\ IF n = 0
       THEN /\ destroyPc' = "done"
            /\ UNCHANGED <<ended, destroyI>>
       ELSE /\ ended' = [ended EXCEPT ![1] = TRUE]
            /\ destroyI' = 1
            /\ destroyPc' = "ending"
  /\ UNCHANGED <<envVars, mgrVars, drv, callVars, tdVars, clientVars>>

\* await pool.end() settles inside destroy(): end() is called on the next
\* pool, or destroy() returns.
PoolEndSettles ==
  /\ destroyPc = "ending"
  /\ IF destroyI < n
       THEN /\ ended' = [ended EXCEPT ![destroyI + 1] = TRUE]
            /\ destroyI' = destroyI + 1
            /\ UNCHANGED destroyPc
       ELSE /\ destroyPc' = "done"
            /\ UNCHANGED <<ended, destroyI>>
  /\ UNCHANGED <<envVars, mgrVars, drv, callVars, tdVars, clientVars, timerOn>>

\* destroy() has not been called: the constructor set the timer, unless the
\* environment is stateless.
NotDestroyed ==
  /\ timerOn = ~isStateless
  /\ ended = [e \in Slots |-> FALSE]
  /\ destroyPc = "none"
  /\ destroyI = 0

\* ---------------------------------------------------------------- Init
\* ---------------------------------------------------------------------------
\* ResilientDatabaseClient (db/client.ts): the endpoint list and the choice of
\* the first active endpoint.
\* ---------------------------------------------------------------------------

\* The endpoint lists the constructor may be written with: the k-th entry is
\* the endpoint registered k-th (its host:port), with any priority.
ConfiguredLists ==
  UNION {{[k \in 1..len |-> [reg |-> k, priority |-> f[k]]] : f \in [1..len -> 1..MaxPriority]} :
           len \in 1..MaxClientEndpoints}

\* One step of the stable Array.prototype.sort with the comparator
\* (a, b) => a.priority - b.priority: x, which stood behind every element of
\* sorted, goes behind every element that does not compare greater than it.
RECURSIVE Insert_Unstable(_, _)
Insert_Unstable(sorted, x) ==
  IF sorted = <<>> THEN <<x>>
  ELSE IF Head(sorted).priority - x.priority < 0
       THEN <<Head(sorted)>> \o Insert_Unstable(Tail(sorted), x)
       ELSE <<x>> \o sorted

RECURSIVE Insert(_, _)
Insert(sorted, x) ==
  IF sorted = <<>> THEN <<x>>
  ELSE IF Head(sorted).priority - x.priority <= 0
       THEN <<Head(sorted)>> \o Insert(Tail(sorted), x)
       ELSE <<x>> \o sorted

\* this.endpoints.sort((a, b) => a.priority - b.priority)
RECURSIVE SortByPriority(_)
SortByPriority(list) ==
  IF list = <<>> THEN <<>>
  ELSE Insert(SortByPriority(SubSeq(list, 1, Len(list) - 1)), list[Len(list)])

\* `${endpoint.host}:${endpoint.port}`: the key names the registered endpoint.
PoolKey(endpoint) == endpoint.reg

PoolKeys == 1 .. MaxClientEndpoints

\* The calls of attemptFailover that may overlap.
Failovers == 1 .. NumFailovers

\* createPool: the pool the map has under the key, or a new one put there.
CreatePool(ps, poolKey) ==
  IF ps[poolKey] = "none" THEN [ps EXCEPT ![poolKey] = "live"] ELSE ps

\* await this.testConnection(pool) of endpoints[i] settles: true makes the
\* endpoint the active one and returns; false goes on to the next endpoint,
\* or throws "Failed to connect to any database endpoint" behind the last.
TestConnectionSettles ==
  /\ initPc = "testing"
  /\ LET endpoint == endpoints[initI + 1] IN
       IF PoolKey(endpoint) \in reachable /\ pools[PoolKey(endpoint)] = "live"
       THEN /\ currentEndpointIndex' = initI
            /\ activePoolKey' = PoolKey(endpoint)
            /\ db' = PoolKey(endpoint)
            /\ initPc' = "connected"
            /\ UNCHANGED <<initI, pools>>
       ELSE /\ initI' = initI + 1
            /\ IF initI + 1 < Len(endpoints)
                 THEN /\ initPc' = "testing"
                      /\ pools' = CreatePool(pools, PoolKey(endpoints[initI + 2]))
                 ELSE /\ initPc' = "failed"
                      /\ UNCHANGED pools
            /\ UNCHANGED <<currentEndpointIndex, activePoolKey, db>>
  /\ UNCHANGED <<lifeVars, envVars, mgrVars, drv, callVars, tdVars, endpoints, reachable, failVars>>

\* A loop that does not stop when the index is back at its start.
FailoverIterate_NoBreak(f, start, a) ==
  LET idx == (currentEndpointIndex + 1) % Len(endpoints)
  IN /\ failoverAttempts' = [failoverAttempts EXCEPT ![f] = a]
     /\ IF a >= Len(endpoints)
          THEN /\ fPc' = [fPc EXCEPT ![f] = "failed"]
               /\ UNCHANGED <<currentEndpointIndex, pools, tested>>
          ELSE /\ currentEndpointIndex' = idx
               /\ fPc' = [fPc EXCEPT ![f] = "testing"]
               /\ tested' = [tested EXCEPT ![f] = idx]
               /\ pools' = CreatePool(pools, PoolKey(endpoints[idx + 1]))

\* attemptFailover from the top of its while loop, with `attempts` at a, to
\* its next await or its throw: the shared index moves on by one; back at
\* start after a test, or with a at the length of the list, the loop ends and
\* the call throws "Failed to failover to any available endpoint"; else the
\* pool of the endpoint at the index is created and its test awaited.
FailoverIterate(f, start, a) ==
  LET idx == (currentEndpointIndex + 1) % Len(endpoints)
  IN /\ failoverAttempts' = [failoverAttempts EXCEPT ![f] = a]
     /\ IF a >= Len(endpoints)
          THEN /\ fPc' = [fPc EXCEPT ![f] = "failed"]
               /\ UNCHANGED <<currentEndpointIndex, pools, tested>>
          ELSE /\ currentEndpointIndex' = idx
               /\ IF idx = start /\ a > 0
                    THEN /\ fPc' = [fPc EXCEPT ![f] = "failed"]
                         /\ UNCHANGED <<pools, tested>>
                    ELSE /\ fPc' = [fPc EXCEPT ![f] = "testing"]
                         /\ tested' = [tested EXCEPT ![f] = idx]
                         /\ pools' = CreatePool(pools, PoolKey(endpoints[idx + 1]))

\* attemptFailover is called, by the pool error handler of the active pool,
\* by the breaker's open event or fallback, or by query() after a connection
\* error: it runs up to its first await.
AttemptFailover(f) ==
  /\ fPc[f] = "idle"
  /\ initPc \in {"connected", "failed"}
  /\ startIndex' = [startIndex EXCEPT ![f] = currentEndpointIndex]
  /\ FailoverIterate(f, currentEndpointIndex, 0)
  /\ UNCHANGED <<lifeVars, envVars, mgrVars, drv, callVars, tdVars, endpoints, reachable, initPc, initI,
                 activePoolKey, db, oldPoolKey>>

\* await this.testConnection(pool) settles inside attemptFailover: true makes
\* the tested endpoint the active one and calls end() on the pool that
\* activePoolKey named, if the map has it; false counts the attempt and goes
\* round the loop.
FailoverTestSettles(f) ==
  /\ fPc[f] = "testing"
  /\ LET poolKey == PoolKey(endpoints[tested[f] + 1])
         old == activePoolKey
     IN IF poolKey \in reachable /\ pools[poolKey] = "live"
          THEN /\ oldPoolKey' = [oldPoolKey EXCEPT ![f] = old]
               /\ activePoolKey' = poolKey
               /\ db' = poolKey
               /\ IF old # 0 /\ pools[old] # "none"
                    THEN /\ pools' = [pools EXCEPT ![old] = "ended"]
                         /\ fPc' = [fPc EXCEPT ![f] = "ending"]
                    ELSE /\ fPc' = [fPc EXCEPT ![f] = "idle"]
                         /\ UNCHANGED pools
               /\ UNCHANGED <<currentEndpointIndex, failoverAttempts, tested>>
          ELSE /\ FailoverIterate(f, startIndex[f], failoverAttempts[f] + 1)
               /\ UNCHANGED <<activePoolKey, db, oldPoolKey>>
  /\ UNCHANGED <<lifeVars, envVars, mgrVars, drv, callVars, tdVars, endpoints, reachable, initPc, initI,
                 startIndex>>

\* await oldPool.end() settles: this.pools.delete(oldPoolKey), and
\* attemptFailover returns.
FailoverEndSettles(f) ==
  /\ fPc[f] = "ending"
  /\ pools' = [pools EXCEPT ![oldPoolKey[f]] = "none"]
  /\ fPc' = [fPc EXCEPT ![f] = "idle"]
  /\ UNCHANGED <<lifeVars, envVars, mgrVars, drv, callVars, tdVars, endpoints, reachable, initPc, initI,
                 currentEndpointIndex, activePoolKey, db, startIndex, failoverAttempts, tested,
                 oldPoolKey>>

\* The rejection of an attemptFailover that threw reaches its caller.
FailoverThrows(f) ==
  /\ fPc[f] = "failed"
  /\ fPc' = [fPc EXCEPT ![f] = "idle"]
  /\ UNCHANGED <<lifeVars, envVars, mgrVars, drv, callVars, tdVars, endpoints, reachable, initPc, initI,
                 currentEndpointIndex, activePoolKey, db, pools, startIndex, failoverAttempts,
                 tested, oldPoolKey>>

\* Environment: the endpoint registered k-th stops or starts to pass the
\* connection test.
ClientKill(k) ==
  /\ k \in 1 .. Len(endpoints)
  /\ k \in reachable
  /\ reachable' = reachable \ {k}
  /\ UNCHANGED <<lifeVars, envVars, mgrVars, drv, callVars, tdVars, endpoints, initPc, initI,
                 currentEndpointIndex, activePoolKey, db, pools, failVars>>

ClientRestart(k) ==
  /\ k \in 1 .. Len(endpoints)
  /\ k \notin reachable
  /\ reachable' = reachable \cup {k}
  /\ UNCHANGED <<lifeVars, envVars, mgrVars, drv, callVars, tdVars, endpoints, initPc, initI,
                 currentEndpointIndex, activePoolKey, db, pools, failVars>>

\* No attemptFailover is running.
NoFailover ==
  /\ fPc = [f \in Failovers |-> "idle"]
  /\ startIndex = [f \in Failovers |-> 0]
  /\ failoverAttempts = [f \in Failovers |-> 0]
  /\ tested = [f \in Failovers |-> 0]
  /\ oldPoolKey = [f \in Failovers |-> 0]

\* No ResilientDatabaseClient has been constructed.
NoClient ==
  /\ endpoints = <<>>
  /\ reachable = {}
  /\ initPc = "none"
  /\ initI = 0
  /\ currentEndpointIndex = 0
  /\ activePoolKey = 0
  /\ db = 0
  /\ pools = [k \in PoolKeys |-> "none"]
  /\ NoFailover

\* The state the constructor leaves: every endpoint healthy, checked now,
\* its breaker closed, and the cursor at 0.
InitManager ==
  /\ currentIndex = 0
  /\ healthStatus = [e \in Slots |-> TRUE]
  /\ sinceCheck = [e \in Slots |-> 0]
  /\ breaker = [e \in Slots |-> ClosedBreaker]
  /\ sinceProbe = 0
  /\ probing = {}
  /\ checkedOut = [e \in Slots |-> 0]
  /\ drv = ClosedBreaker

InitTimeoutDriver ==
  /\ tdPc = [c \in Callers |-> "idle"]
  /\ tdTimer = [c \in Callers |-> 0]
  /\ acquire = [c \in Callers |-> "none"]
  /\ acquireAge = [c \in Callers |-> 0]
  /\ stmt = [c \in Callers |-> "none"]
  /\ reserved = 0

InitCallers ==
  /\ pc = [c \in Callers |-> "idle"]
  /\ op = [c \in Callers |-> "none"]
  /\ i = [c \in Callers |-> 0]
  /\ key = [c \in Callers |-> 0]
  /\ adm = [c \in Callers |-> "none"]
  /\ age = [c \in Callers |-> 0]
  /\ attempts = [c \in Callers |-> 0]
  /\ elapsed = [c \in Callers |-> 0]
  /\ rows = [c \in Callers |-> 0]
  /\ attempt = [c \in Callers |-> 0]
  /\ execs = [c \in Callers |-> 0]
  /\ dadm = [c \in Callers |-> "none"]
  /\ result = [c \in Callers |-> "none"]
  /\ tx = [c \in Callers |-> "none"]

Init ==
  /\ n = 2
  /\ isStateless = FALSE
  /\ up = [e \in Slots |-> TRUE]
  /\ InitManager
  /\ InitCallers
  /\ InitTimeoutDriver
  /\ NotDestroyed
  /\ NoClient

InitTimed ==
  /\ n = 1
  /\ isStateless = FALSE
  /\ up = [e \in Slots |-> TRUE]
  /\ InitManager
  /\ InitCallers
  /\ InitTimeoutDriver
  /\ NotDestroyed
  /\ NoClient

\* The steps of getConnection after its first await.
Routing(c) ==
  \/ ConnectSettles(c)
  \/ CatchConnectError(c)
  \/ CatchBrokenCircuit(c)

Streaming(c) ==
  \/ StreamStart(c)
  \/ StreamUnavailable(c)
  \/ StreamQuerySettles(c)
  \/ StreamNext(c)
  \/ StreamReturn(c)
  \/ Settle(c)

\* The steps of executeQuery after its first await.
Attempts(c) ==
  \/ ExecUnavailable(c)
  \/ ExecQuerySettles(c)
  \/ DrvRejected(c)
  \/ BackoffDone(c)

Executing(c) ==
  \/ ExecuteQuery(c)
  \/ Attempts(c)

\* A statement inside the callback of a transaction.
TransactionQuery(c) ==
  /\ tx[c] = "active"
  /\ ExecStart(c, "query")

Transacting(c) ==
  \/ TransactionQuery(c)
  \/ BeginTransaction(c)
  \/ CommitTransaction(c)
  \/ RollbackTransaction(c)

HealthChecks ==
  \/ ProbeStart
  \/ \E e \in Slots : ProbeSettles(e)
  \/ \E e \in Slots : PoolError(e)

Environment ==
  \/ \E e \in Slots : Kill(e)
  \/ \E e \in Slots : Restart(e)

\* Time as the order in which timers fall due: every behaviour with a clock,
\* seen through the comparisons the code makes, is one of these.
Timers ==
  \/ \E e \in Slots : GraceElapses(e)
  \/ \E e \in Slots : HalfOpenElapses(e)
  \/ DrvHalfOpenElapses
  \/ IntervalElapses

\* One caller at a time on two endpoints.
Next ==
  \/ Routing(1)
  \/ Streaming(1)
  \/ Executing(1)
  \/ HealthChecks
  \/ Environment
  \/ Timers

\* One caller that runs transactions, one after the other.
NextTx ==
  \/ Routing(1)
  \/ Transacting(1)
  \/ Attempts(1)
  \/ Settle(1)
  \/ HealthChecks
  \/ Environment
  \/ Timers

\* Concurrent callers on one endpoint, time as a clock.
NextTimed ==
  \/ \E c \in Callers : Routing(c)
  \/ \E c \in Callers : Reexecute(c)
  \/ \E c \in Callers : Streaming(c)
  \/ HealthChecks
  \/ Environment
  \/ Tick

\* Concurrent callers of executeQuery on one endpoint.
NextShared ==
  \/ \E c \in Callers : Routing(c)
  \/ \E c \in Callers : Reexecute(c)
  \/ \E c \in Callers : Executing(c)
  \/ \E c \in Callers : DrvReexecute(c)
  \/ \E c \in Callers : Settle(c)
  \/ HealthChecks
  \/ Environment
  \/ Timers

\* Exactly one endpoint, h, accepts connections, from any cursor position.
\* The manager holds of h any record it can hold of an endpoint that was down
\* and has come back: marked healthy or not, its breaker closed or just
\* opened; of the others it holds what the constructor left.
InitOneHealthy ==
  /\ n \in 1 .. OneHealthyEndpoints
  /\ isStateless = FALSE
  /\ currentIndex \in 0 .. n - 1
  /\ \E h \in Eps :
       /\ up = [e \in Slots |-> e = h]
       /\ \E marked \in BOOLEAN : healthStatus = [e \in Slots |-> e # h \/ marked]
       /\ \E b \in {ClosedBreaker, [state |-> "open", count |-> ConsecutiveFailures, since |-> 0]} :
            breaker = [e \in Slots |-> IF e = h THEN b ELSE ClosedBreaker]
  /\ sinceCheck = [e \in Slots |-> 0]
  /\ sinceProbe = 0
  /\ probing = {}
  /\ checkedOut = [e \in Slots |-> 0]
  /\ drv = ClosedBreaker
  /\ InitCallers
  /\ InitTimeoutDriver
  /\ NotDestroyed
  /\ NoClient

\* The timers of the pool manager.
ManagerTimers ==
  \/ \E e \in Slots : GraceElapses(e)
  \/ \E e \in Slots : HalfOpenElapses(e)
  \/ IntervalElapses

\* One caller that asks for connections again and again.
NextOneHealthy ==
  \/ Routing(1)
  \/ Streaming(1)
  \/ HealthChecks
  \/ ManagerTimers

\* The event loop runs every continuation that is ready, and time passes.
FairOneHealthy ==
  /\ WF_vars(Routing(1))
  /\ WF_vars(Streaming(1))
  /\ \A e \in Slots : SF_vars(GraceElapses(e))
  /\ \A e \in Slots : SF_vars(HalfOpenElapses(e))

\* No endpoint accepts connections.
InitAllDown ==
  /\ n \in 1 .. AllDownEndpoints
  /\ isStateless = FALSE
  /\ up = [e \in Slots |-> FALSE]
  /\ InitManager
  /\ InitCallers
  /\ InitTimeoutDriver
  /\ NotDestroyed
  /\ NoClient

\* The callers of getConnection while every endpoint is down: concurrent
\* callers on one endpoint, one caller on several.
AllDownCallers == IF n = 1 THEN Callers ELSE {1}

\* Calls of getConnection while every endpoint is down, time as a clock.
NextAllDown ==
  \/ \E c \in AllDownCallers : Routing(c)
  \/ \E c \in AllDownCallers : Reexecute(c)
  \/ \E c \in AllDownCallers : StreamStart(c)
  \/ \E c \in AllDownCallers : StreamUnavailable(c)
  \/ \E c \in AllDownCallers : Settle(c)
  \/ HealthChecks
  \/ Tick

\* The callers of the timeout driver over a pool of PoolMax connections.
NextTimeout ==
  \/ \E c \in Callers : Acquire(c)
  \/ \E c \in Callers : AcquireSettles(c)
  \/ \E c \in Callers : AcquireTimeout(c)
  \/ \E c \in Callers : TimeoutExecute(c)
  \/ \E c \in Callers : TimeoutQuerySettles(c)
  \/ \E c \in Callers : QueryTimeout(c)
  \/ \E c \in Callers : AbandonedSettles(c)
  \/ \E c \in Callers : ReleaseConnection(c)
  \/ TimeoutTick

\* Three endpoints A, B, C, of which A and B have just been killed.
InitFailover ==
  /\ n = MaxEndpoints
  /\ isStateless = FALSE
  /\ up = [e \in Slots |-> e = MaxEndpoints]
  /\ InitManager
  /\ InitCallers
  /\ InitTimeoutDriver
  /\ NotDestroyed
  /\ NoClient

\* One caller that sends query after query while A and B are down and after
\* they are restarted.
NextFailover ==
  \/ ConnectSettles(1)
  \/ CatchConnectError(1)
  \/ StreamStart(1)
  \/ StreamQuerySettles(1)
  \/ StreamNext(1)
  \/ StreamReturn(1)
  \/ Settle(1)
  \/ HealthChecks
  \/ \E e \in Slots : Restart(e)
  \/ \E e \in Slots : GraceElapses(e)
  \/ IntervalElapses

\* The event loop runs every continuation that is ready, the health check
\* timer fires, time passes, and A and B are restarted.
FairFailover ==
  /\ WF_vars(Routing(1))
  /\ WF_vars(Streaming(1))
  /\ SF_vars(HealthChecks)
  /\ SF_vars(IntervalElapses)
  /\ SF_vars(\E e \in Slots : Restart(e))

\* Two endpoints that accept no connections.
InitCursor ==
  /\ n = 2
  /\ isStateless = FALSE
  /\ up = [e \in Slots |-> FALSE]
  /\ InitManager
  /\ InitCallers
  /\ InitTimeoutDriver
  /\ NotDestroyed
  /\ NoClient

\* Concurrent calls of getConnection that share the cursor.
NextCursor ==
  \/ \E c \in Callers : Routing(c)
  \/ \E c \in Callers : Reexecute(c)
  \/ \E c \in Callers : StreamStart(c)
  \/ \E c \in Callers : StreamUnavailable(c)
  \/ \E c \in Callers : Settle(c)
  \/ \E e \in Slots : GraceElapses(e)
  \/ \E e \in Slots : HalfOpenElapses(e)

\* One endpoint that accepts no connections.
InitGrace ==
  /\ n = 1
  /\ isStateless = FALSE
  /\ up = [e \in Slots |-> FALSE]
  /\ InitManager
  /\ InitCallers
  /\ InitTimeoutDriver
  /\ NotDestroyed
  /\ NoClient

\* The health check timer and one caller while the endpoint stays down, time
\* as a clock.
NextGrace ==
  \/ Routing(1)
  \/ StreamStart(1)
  \/ StreamUnavailable(1)
  \/ Settle(1)
  \/ HealthChecks
  \/ Tick

\* Time passes, and the event loop runs the timer and the probes' callbacks.
FairGrace ==
  /\ SF_vars(Tick)
  /\ SF_vars(HealthChecks)
  /\ WF_vars(Routing(1) \/ StreamUnavailable(1) \/ Settle(1))

\* The state the constructor of FailoverConnectionManager leaves in a
\* stateless environment: healthStatus and lastHealthCheck stay empty, so
\* that healthStatus.get(key) is undefined and lastHealthCheck.get(key) || 0
\* is the epoch; no timer is set.
InitStateless ==
  /\ n = 2
  /\ isStateless = TRUE
  /\ up = [e \in Slots |-> TRUE]
  /\ currentIndex = 0
  /\ healthStatus = [e \in Slots |-> FALSE]
  /\ sinceCheck = [e \in Slots |-> RetryAfterMs + 1]
  /\ breaker = [e \in Slots |-> ClosedBreaker]
  /\ sinceProbe = 0
  /\ probing = {}
  /\ checkedOut = [e \in Slots |-> 0]
  /\ drv = ClosedBreaker
  /\ InitCallers
  /\ InitTimeoutDriver
  /\ NotDestroyed
  /\ NoClient

\* One caller of ManagedConnection.streamQuery in a stateless environment,
\* while endpoints go down and come back.
NextStateless ==
  \/ Routing(1)
  \/ Streaming(1)
  \/ Environment
  \/ \E e \in Slots : HalfOpenElapses(e)

Spec == Init /\ [][Next]_vars

SpecStateless == InitStateless /\ [][NextStateless]_vars

\* The client after its constructor: the list it was written with sorted, and
\* initializePrimaryConnection suspended in the connection test of endpoints[0].
InitClient ==
  /\ n = 1
  /\ isStateless = FALSE
  /\ up = [e \in Slots |-> TRUE]
  /\ InitManager
  /\ InitCallers
  /\ InitTimeoutDriver
  /\ NotDestroyed
  /\ \E list \in ConfiguredLists :
       /\ endpoints = SortByPriority(list)
       /\ reachable \in SUBSET (1..Len(list))
  /\ initPc = "testing"
  /\ initI = 0
  /\ currentEndpointIndex = 0
  /\ activePoolKey = 0
  /\ db = 0
  /\ pools = CreatePool([k \in PoolKeys |-> "none"], PoolKey(endpoints[1]))
  /\ NoFailover

NextClient == TestConnectionSettles

SpecClient == InitClient /\ [][NextClient]_vars

\* The client after its constructor with the list of db/client.ts: endpoint
\* k has priority k.
InitListed ==
  /\ n = 1
  /\ isStateless = FALSE
  /\ up = [e \in Slots |-> TRUE]
  /\ InitManager
  /\ InitCallers
  /\ InitTimeoutDriver
  /\ NotDestroyed
  /\ endpoints = SortByPriority([k \in 1..ClientEndpoints |-> [reg |-> k, priority |-> k]])
  /\ reachable \in SUBSET (1..ClientEndpoints)
  /\ initPc = "testing"
  /\ initI = 0
  /\ currentEndpointIndex = 0
  /\ activePoolKey = 0
  /\ db = 0
  /\ pools = CreatePool([k \in PoolKeys |-> "none"], PoolKey(endpoints[1]))
  /\ NoFailover

\* The initial connection, then one attemptFailover at a time.
NextOneFailover ==
  \/ TestConnectionSettles
  \/ AttemptFailover(1)
  \/ FailoverTestSettles(1)
  \/ FailoverEndSettles(1)
  \/ FailoverThrows(1)
  \/ \E k \in PoolKeys : ClientKill(k)
  \/ \E k \in PoolKeys : ClientRestart(k)

SpecOneFailover == InitListed /\ [][NextOneFailover]_vars

\* The initial connection, then calls of attemptFailover that overlap.
NextOverlap ==
  \/ TestConnectionSettles
  \/ \E f \in Failovers : AttemptFailover(f)
  \/ \E f \in Failovers : FailoverTestSettles(f)
  \/ \E f \in Failovers : FailoverEndSettles(f)
  \/ \E f \in Failovers : FailoverThrows(f)
  \/ \E k \in PoolKeys : ClientKill(k)
  \/ \E k \in PoolKeys : ClientRestart(k)

SpecOverlap == InitListed /\ [][NextOverlap]_vars

\* The health checks of a manager that is destroyed at some moment.
NextDestroy ==
  \/ HealthChecks
  \/ Environment
  \/ IntervalElapses
  \/ \E e \in Slots : GraceElapses(e)
  \/ Destroy
  \/ PoolEndSettles

SpecDestroy == Init /\ [][NextDestroy]_vars

SpecGrace == InitGrace /\ [][NextGrace]_vars /\ FairGrace

SpecCursor == InitCursor /\ [][NextCursor]_vars

\* The manager as its constructor leaves it for any array of endpoints it is
\* given, the empty array included; no endpoint accepts connections.
InitAnyList ==
  /\ n \in 0 .. MaxListed
  /\ isStateless = FALSE
  /\ up = [e \in Slots |-> FALSE]
  /\ InitManager
  /\ InitCallers
  /\ InitTimeoutDriver
  /\ NotDestroyed
  /\ NoClient

SpecAnyList == InitAnyList /\ [][NextCursor]_vars

SpecFailover == InitFailover /\ [][NextFailover]_vars /\ FairFailover

SpecTimeout == Init /\ [][NextTimeout]_vars

SpecAllDown == InitAllDown /\ [][NextAllDown]_vars

SpecOneHealthy == InitOneHealthy /\ [][NextOneHealthy]_vars /\ FairOneHealthy

SpecTx == Init /\ [][NextTx]_vars

SpecShared == InitTimed /\ [][NextShared]_vars

SpecTimed == InitTimed /\ [][NextTimed]_vars

\* ================================================================ claims

\* A caller holds a client obtained from getConnection.
Holding(c) == pc[c] \in {"querying", "yielded"}

Connecting(e) == {c \in Callers : pc[c] = "connecting" /\ key[c] = e}

\* Endpoint e's breaker is open and halfOpenAfter has not passed since.
OpenYoung(e) == breaker[e].state = "open" /\ breaker[e].since < HalfOpenAfter

\* C3: a breaker that has counted 3 consecutive failures is not closed, and
\* while it is open and halfOpenAfter has not passed since it opened, no
\* call of getConnection starts a pool.connect on its endpoint.
C3_OpenBreakerRejects ==
  [][\A e \in Eps :
       /\ breaker'[e].count >= ConsecutiveFailures => breaker'[e].state # "closed"
       /\ OpenYoung(e) => Connecting(e)' \subseteq Connecting(e)]_vars

\* C3 witness: the breaker opened on the third failure, and a call that came
\* before halfOpenAfter had passed was rejected.
C3_Witness ==
  \E c \in Callers :
    /\ pc[c] = "rejected"
    /\ OpenYoung(key[c])
    /\ breaker[key[c]].count = ConsecutiveFailures

\* C4, as stated: while the breaker of an endpoint is half-open, at most one
\* pool.connect on that endpoint is in flight.
C4_OneConnectWhileHalfOpen ==
  \A e \in Eps : breaker[e].state = "halfOpen" => Cardinality(Connecting(e)) <= 1

\* C5, as stated: when client.query fails with a statement error inside
\* executeQuery, no breaker that gates the endpoint counts a failure, and
\* the endpoint keeps its health mark and stays the one the cursor selects.
C5_StatementErrorNotCounted ==
  [][\A c \in Callers :
       pc[c] = "querying" /\ op[c] \in ExecOps /\ result'[c] = "statementError"
         => /\ drv'.count = drv.count
            /\ drv'.state = drv.state
            /\ breaker' = breaker
            /\ healthStatus' = healthStatus
            /\ currentIndex' = currentIndex]_vars

\* C6, as stated: from the BEGIN of a transaction to its COMMIT or ROLLBACK
\* the caller keeps the client the BEGIN ran on.
C6_TransactionKeepsConnection ==
  \A c \in Callers : tx[c] = "active" => key[c] \in Eps /\ checkedOut[key[c]] >= 1

\* The clients of endpoint e in the hands of callers.
Held(e) == Cardinality({c \in Callers : Holding(c) /\ key[c] = e})

\* C7: every client that an attempt of executeQuery obtained is released
\* once when the attempt ends: the clients checked out of a pool are those of
\* the attempts whose client.query is in flight, and none when every
\* executeQuery has returned or thrown.
C7_ExecuteQueryReleases ==
  /\ \A e \in Slots : checkedOut[e] = Held(e)
  /\ \A c \in Callers : pc[c] \in {"idle", "backoff", "done"} => key[c] = 0

\* C7 witness: executeQuery threw after its last retry failed on a client,
\* and no client is checked out.
C7_Witness ==
  \E c \in Callers :
    /\ pc[c] = "done"
    /\ op[c] = "query"
    /\ attempt[c] = MaxAttempts
    /\ result[c] \in {"statementError", "connectionError"}
    /\ \A e \in Slots : checkedOut[e] = 0

\* C8: streamQuery keeps its client checked out while rows are consumed, and
\* the client is released once when the sequence ends, however it ends.
C8_StreamQueryReleases ==
  /\ \A c \in Callers : pc[c] = "yielded" => key[c] \in Eps /\ checkedOut[key[c]] >= 1
  /\ \A c \in Callers : pc[c] = "done" /\ op[c] = "stream" => key[c] = 0
  /\ \A e \in Slots : checkedOut[e] = Held(e)

\* C8 witness: the consumer left the loop early while another stream still
\* holds its client, which is the only one checked out.
C8_Witness ==
  \E c, d \in Callers :
    /\ pc[c] = "done"
    /\ result[c] = "return"
    /\ pc[d] = "yielded"
    /\ checkedOut[key[d]] = 1

\* The callers of the timeout driver that have a connection.
Connected == {c \in Callers : tdPc[c] \in {"connected", "executing"}}

\* C9, as stated: every connection reserved from the wrapped driver is in the
\* hands of a caller that will release it, also after a timeout.
C9_NoConnectionLeftCheckedOut ==
  reserved = Cardinality(Connected)

\* C10, as stated: while A and B are down every query that gets a client gets
\* it from C, and once A and B are up again and have passed a health probe,
\* a query is routed to A or B.
C10_ResumesRouting ==
  /\ [](\A c \in Callers : Holding(c) /\ ~up[1] /\ ~up[2] => key[c] = MaxEndpoints)
  /\ [](up[1] /\ up[2] /\ healthStatus[1] /\ healthStatus[2]
          => <>(\E c \in Callers : Holding(c) /\ key[c] \in {1, 2}))

\* C11, as stated: while every endpoint is down, an executeQuery that fails,
\* fails with the error that all instances are unavailable and with no other
\* error.
C11_OnlyUnavailableError ==
  \A c \in Callers :
    pc[c] = "done" /\ op[c] \in ExecOps /\ (\A e \in Eps : ~up[e])
      => result[c] = "unavailable"

C13_StatementErrorNotRetried ==
  \A c \in Callers :
    op[c] \in ExecOps /\ result[c] = "statementError" => pc[c] = "done"

\* The errors an execution of the operation inside the driver's policy can
\* end with: that of getConnection, those of client.query, and the
\* BrokenCircuitError of the driver's breaker.
AttemptErrors == {"unavailable", "connectionError", "statementError", "brokenCircuit"}

\* C14, as stated: the error executeQuery throws after the last retry failed
\* is a RetriesExhaustedError around the error of the last execution, not
\* that error itself.
C14_RetriesExhaustedError ==
  \A c \in Callers :
    pc[c] = "done" /\ op[c] \in ExecOps /\ attempt[c] = MaxAttempts
      => result[c] \notin AttemptErrors

\* C15, as stated: when getConnection ends with its error after pool.connect
\* failed in that pass, the error carries the last of those failures as its
\* cause.
C15_UnavailableCarriesCause ==
  \A c \in Callers :
    pc[c] = "unavailable" /\ attempts[c] >= 1 => UnavailableError.cause # "none"

\* C16: the step that records a failure of pool.connect on endpoint E changes
\* the breaker of E alone; when it is the third consecutive failure E's breaker
\* is open after it, and the state and the count of every other endpoint's
\* breaker are as they were.
C16_BreakerPerEndpoint ==
  [][\A e \in Eps :
       breaker'[e].count > breaker[e].count
         => /\ \A f \in Eps \ {e} : breaker'[f] = breaker[f]
            /\ breaker'[e].count >= ConsecutiveFailures => breaker'[e].state = "open"]_vars

\* C16 witness: the third consecutive failure on one endpoint has just opened
\* its breaker, and the breaker of the other endpoint is closed with no
\* failure counted.
C16_Witness ==
  \E c \in Callers, e \in Eps :
    /\ n > 1
    /\ pc[c] = "connErr"
    /\ key[c] = e
    /\ breaker[e] = [state |-> "open", count |-> ConsecutiveFailures, since |-> 0]
    /\ \A f \in Eps \ {e} : breaker[f] = ClosedBreaker

\* C17, as stated: a call of getConnection considers no endpoint twice: with
\* more than one endpoint, the endpoint it goes on to after a failure is not
\* the one that has just failed, also when other calls move the cursor.
C17_OnePassPerCall ==
  [][\A c \in Callers :
       /\ n > 1
       /\ pc[c] \in {"connErr", "rejected"}
       /\ pc'[c] \in {"connecting", "rejected", "waiting"}
       => key'[c] # key[c]]_vars

\* C18, as stated: an endpoint that is marked unhealthy is, some time later,
\* eligible for getConnection again (or marked healthy), also while the
\* probes of the health check keep failing.
C18_EligibleAfterGrace ==
  \A e \in Slots :
    (e \in Eps /\ ~healthStatus[e])
      ~> (healthStatus[e] \/ ShouldRetryEndpoint(healthStatus, e))

\* C19: a cycle of performHealthChecks probes every endpoint; each probe that
\* settles, with success or failure, records the outcome and the time for its
\* own endpoint and leaves the other probes in flight; no step of the health
\* check changes anything of a caller of getConnection.
C19_ProbesIsolated ==
  [][/\ probing = {} /\ probing' # {} => probing' = Eps
     /\ \A e \in Eps :
          e \in probing /\ e \notin probing'
            => /\ healthStatus'[e] = up[e]
               /\ sinceCheck'[e] = 0
               /\ probing' = probing \ {e}
     /\ probing' # probing => callVars' = callVars]_vars

\* C19 witness: in a cycle over two endpoints the probe of the first has
\* failed and is recorded, and the probe of the second is still in flight.
C19_Witness ==
  /\ n = 2
  /\ probing = {2}
  /\ ~up[1]
  /\ ~healthStatus[1]
  /\ sinceCheck[1] = 0
  /\ sinceCheck[2] > RetryAfterMs

\* C20: in a stateless environment no probe of the health check ever runs
\* and no health record is written, the eligibility check holds of every
\* endpoint in every state, and the loop of getConnection passes over an
\* endpoint only in a catch block, after pool.connect failed or the
\* endpoint's open breaker rejected the call.
C20_StatelessPassive ==
  /\ [](probing = {} /\ \A e \in Eps : ShouldRetryEndpoint(healthStatus, e))
  /\ [][/\ healthStatus' = healthStatus
        /\ sinceCheck' = sinceCheck
        /\ \A c \in Callers :
             /\ i'[c] > i[c] => i'[c] = i[c] + 1 /\ pc[c] \in {"connErr", "rejected"}
             /\ pc'[c] = "rejected" /\ pc[c] # "rejected" => breaker[key'[c]].state = "open"]_vars

\* C20 witness: a call passes over an endpoint that is down because its
\* breaker is open, and gets its client from the next endpoint.
C20_Witness ==
  \E c \in Callers :
    /\ isStateless
    /\ Holding(c)
    /\ \E e \in Eps : e # key[c] /\ ~up[e] /\ breaker[e].state = "open"

\* C21, as stated: the step in which the timeout of a statement's execution
\* expires counts one failure in the breaker of an endpoint.
C21_TimeoutCountedByBreaker ==
  [][\A c \in Callers :
       stmt[c] = "pending" /\ stmt'[c] = "abandoned"
         => \E e \in Eps : breaker'[e].count = breaker[e].count + 1]_vars

\* C22, as stated: a connection on which a statement was abandoned by the
\* timeout and is still running is not given another statement.
C22_TimedOutConnectionNotReused ==
  [][\A c \in Callers :
       stmt[c] = "abandoned" => ~(tdPc[c] = "connected" /\ tdPc'[c] = "executing")]_vars

\* C23, as stated: when client.query fails with a connection error inside
\* executeQuery, the endpoint of the client is marked unhealthy, its breaker
\* counts a failure, and the cursor has moved on from it for the retry.
C23_QueryConnectionErrorReported ==
  [][\A c \in Callers :
       pc[c] = "querying" /\ op[c] \in ExecOps /\ result'[c] = "connectionError"
         => /\ ~healthStatus'[key[c]]
            /\ breaker'[key[c]].count > breaker[key[c]].count
            /\ currentIndex' # key[c] - 1]_vars

\* C24, as stated: streamQuery ends with an error only as executeQuery does,
\* after the retry policy has retried it maxAttempts times.
C24_StreamQueryLikeExecuteQuery ==
  \A c \in Callers :
    pc[c] = "done" /\ op[c] \in ExecOps \cup {"stream"} /\ result[c] \in AttemptErrors
      => attempt[c] = MaxAttempts

\* C25: the client's endpoint list is in ascending priority, endpoints of equal
\* priority in the order they were registered, and the endpoint that
\* initializePrimaryConnection makes active is the first of that order whose
\* connection test succeeds.
C25_ActiveIsFirstReachableByPriority ==
  initPc # "none" =>
    /\ \A j, k \in 1..Len(endpoints) :
         j < k => \/ endpoints[j].priority < endpoints[k].priority
                  \/ /\ endpoints[j].priority = endpoints[k].priority
                     /\ endpoints[j].reg < endpoints[k].reg
    /\ initPc = "connected" =>
         LET active == endpoints[currentEndpointIndex + 1] IN
           /\ activePoolKey = active.reg
           /\ active.reg \in reachable
           /\ \A k \in 1..Len(endpoints) :
                endpoints[k].reg \in reachable /\ endpoints[k].reg # active.reg
                  => \/ active.priority < endpoints[k].priority
                     \/ /\ active.priority = endpoints[k].priority
                        /\ active.reg < endpoints[k].reg
    /\ initPc = "failed" => reachable = {}

\* An endpoint that was not registered first and shares its priority with
\* another one became active after an endpoint before it failed its test.
C25_Witness ==
  /\ initPc = "connected"
  /\ currentEndpointIndex >= 1
  /\ endpoints[1].reg # 1
  /\ \E k \in 1..Len(endpoints) :
       /\ k # currentEndpointIndex + 1
       /\ endpoints[k].priority = endpoints[currentEndpointIndex + 1].priority
       /\ endpoints[k].reg \in reachable

\* C26, as stated: no manager with an empty endpoint list is ever there to
\* serve getConnection(); a call is only ever made on one or more endpoints.
C26_NoEmptyRouter ==
  \A c \in Callers : pc[c] # "idle" => n >= 1

\* C27, as stated: a pool.connect() that succeeds on the endpoint at cursor
\* position i leaves the cursor at (i + 1) mod N when getConnection returns.
C27_CursorAdvancesOnSuccess ==
  [][\A c \in Callers :
       pc[c] = "connecting" /\ pc'[c] = "querying"
         => currentIndex' = ((key[c] - 1) + 1) % n]_vars

\* C28: a pool.connect() that fails inside getConnection() is counted by the
\* breaker of its endpoint, which opens at consecutiveFailures; the catch
\* block then marks the endpoint unhealthy and moves the cursor by one, and
\* the call goes on with the endpoint behind it or, with none left, throws.
C28_FailedConnectReported ==
  [][\A c \in Callers :
       /\ pc[c] = "connecting" /\ pc'[c] = "connErr"
            => LET b == breaker[key[c]]
                   b2 == breaker'[key[c]]
               IN /\ b2.count = Min(b.count + 1, ConsecutiveFailures)
                  /\ adm[c] = "run" => b2.count = b.count + 1
                  /\ b2.count >= ConsecutiveFailures \/ adm[c] = "trial" => b2.state = "open"
       /\ pc[c] = "connErr"
            => /\ ~healthStatus'[key[c]]
               /\ i'[c] > i[c]
               /\ pc'[c] \in {"connecting", "rejected", "waiting"}
                    => /\ currentIndex' = (currentIndex + 1) % n
                       /\ key'[c] = currentIndex' + 1
                       /\ i'[c] = i[c] + 1
               /\ pc'[c] \notin {"connecting", "rejected", "waiting"}
                    => pc'[c] = "unavailable" /\ i'[c] >= n]_vars

\* The call is at its second endpoint after pool.connect() of the first one
\* failed: the first is marked unhealthy, its breaker has counted one failure.
C28_Witness ==
  /\ pc[1] = "connecting"
  /\ i[1] = 1
  /\ key[1] = 2
  /\ currentIndex = 1
  /\ ~healthStatus[1]
  /\ breaker[1].count = 1

\* C29: the endpoints getConnection() passes over without calling their
\* breaker are exactly the ineligible ones, those marked unhealthy whose last
\* check is no more than retryAfterMs old: every endpoint it passes over is
\* ineligible and keeps its health mark, and the endpoint it stops at to
\* attempt is eligible.
C29_SkipsIffIneligible ==
  [][\A c \in Callers :
       LET entered == /\ pc[c] \in {"idle", "backoff", "drvWoken"}
                      /\ pc'[c] \in {"connecting", "rejected", "waiting", "unavailable"}
           caught == pc[c] \in {"connErr", "rejected"} /\ i'[c] > i[c]
           hs == IF pc[c] = "connErr" THEN [healthStatus EXCEPT ![key[c]] = FALSE]
                                      ELSE healthStatus
           idx == IF caught THEN (currentIndex + 1) % n ELSE currentIndex
           k == IF caught THEN i[c] + 1 ELSE 0
           eligible(e) == hs[e] \/ sinceCheck[e] > RetryAfterMs
           skipped == {((idx + j) % n) + 1 : j \in 0 .. (i'[c] - k - 1)}
       IN entered \/ caught =>
            /\ \A e \in skipped : ~eligible(e) /\ healthStatus'[e] = hs[e]
            /\ pc'[c] # "unavailable"
                 => /\ key'[c] = ((idx + (i'[c] - k)) % n) + 1
                    /\ eligible(key'[c])
            /\ pc'[c] = "unavailable" => i'[c] >= n]_vars

\* A call found its only endpoint marked unhealthy by a check not older than
\* retryAfterMs and ended without one pool.connect().
C29_Witness ==
  \E c \in Callers :
    /\ pc[c] = "unavailable"
    /\ i[c] = 1
    /\ attempts[c] = 0
    /\ ~healthStatus[1]
    /\ sinceCheck[1] <= RetryAfterMs

\* C30, as stated: whatever marks an endpoint unhealthy, the probe, a failed
\* pool.connect() in getConnection or a pool error event, also sets the time
\* of its last check to now.
C30_OutcomeUpdatesLastChecked ==
  [][\A e \in Eps :
       healthStatus[e] /\ ~healthStatus'[e] => sinceCheck'[e] = 0]_vars

\* C31, as stated: an endpoint's breaker goes from closed to open exactly with the
\* failure that brings its count of consecutive failures to the threshold, a
\* pool.connect() that succeeds through a closed breaker sets the count to 0,
\* and a closed breaker always has a count below the threshold.
C31_ClosedBelowThreshold ==
  [][/\ \A e \in Eps :
          /\ breaker[e].state = "closed" /\ breaker'[e].state = "open"
               => /\ breaker[e].count = ConsecutiveFailures - 1
                  /\ breaker'[e].count = ConsecutiveFailures
          /\ breaker[e].state = "closed" /\ breaker'[e].count >= ConsecutiveFailures
               => breaker'[e].state = "open"
          /\ breaker'[e].state = "closed" => breaker'[e].count < ConsecutiveFailures
     /\ \A c \in Callers :
          pc[c] = "connecting" /\ pc'[c] = "querying" /\ breaker[key[c]].state = "closed"
            => breaker'[key[c]].count = 0]_vars

\* C32, as stated: an open breaker turns half-open only when halfOpenAfter has
\* passed since it opened; a half-open trial that succeeds leaves the breaker
\* closed with count 0, and one that fails leaves it open with its opening
\* time set to now.
C32_HalfOpenTrial ==
  [][/\ \A e \in Eps :
          breaker[e].state = "open" /\ breaker'[e].state = "halfOpen"
            => breaker[e].since >= HalfOpenAfterMs
     /\ \A c \in Callers :
          pc[c] = "connecting" /\ adm[c] = "trial"
            => /\ pc'[c] = "querying"
                    => breaker'[key[c]].state = "closed" /\ breaker'[key[c]].count = 0
               /\ pc'[c] = "connErr"
                    => breaker'[key[c]].state = "open" /\ breaker'[key[c]].since = 0]_vars

\* C33, as stated: a statement runs on a connection only between the
\* acquisition of that connection and its release.
C33_StatementOnHeldConnection ==
  \A c \in Callers :
    /\ stmt[c] # "none" => tdPc[c] \in {"connected", "executing"}
    /\ pc[c] \in {"querying", "yielded"} => key[c] \in Eps /\ checkedOut[key[c]] >= 1

\* C34: whatever calls of getConnection() have run and however they
\* interleaved, the shared cursor is an index of the endpoint list.
C34_CursorInRange ==
  currentIndex \in 0 .. n - 1

\* A call has been through the whole list, every pool.connect() failed, and
\* the cursor is back at the first endpoint.
C34_Witness ==
  \E c \in Callers :
    /\ pc[c] = "unavailable"
    /\ i[c] >= n
    /\ attempts[c] = n
    /\ currentIndex = 0

\* C35, as stated: the driver's policy rejects an executeQuery without a call
\* of getConnection() only when no endpoint is both eligible and behind a
\* closed breaker.
C35_DriverTriesEligibleEndpoint ==
  \A c \in Callers :
    pc[c] = "drvRejected"
      => ~\E e \in Eps :
            /\ healthStatus[e] \/ sinceCheck[e] > RetryAfterMs
            /\ breaker[e].state = "closed"

\* C36, as stated: the health mark of an endpoint turns from false to true
\* only in a step in which its probe or a pool.connect() on it succeeded.
C36_HealthyOnlyAfterSuccess ==
  [][\A e \in Eps :
       ~healthStatus[e] /\ healthStatus'[e]
         => \/ e \in probing /\ e \notin probing' /\ up[e]
            \/ \E c \in Callers :
                 pc[c] = "connecting" /\ key[c] = e /\ pc'[c] = "querying"]_vars

\* C37, as stated: whatever calls of attemptFailover have run and however they
\* overlapped, a non-null activePoolKey names a pool that is in the pools map
\* and has not been ended.
C37_ActivePoolLive ==
  activePoolKey # 0 => pools[activePoolKey] = "live"

\* C38: an attemptFailover that no other overlaps tests the endpoints other
\* than the one at its start index, each once at most and in cyclic order
\* behind that index; when the last of them has failed its test the call
\* throws with the index back at its start, and no failed test changes
\* activePoolKey or db.
C38_FailoverTestsOthersOnce ==
  [][/\ fPc'[1] = "testing"
          => /\ tested'[1] = (startIndex'[1] + failoverAttempts'[1] + 1) % Len(endpoints)
             /\ tested'[1] # startIndex'[1]
             /\ failoverAttempts'[1] <= Len(endpoints) - 2
             /\ currentEndpointIndex' = tested'[1]
     /\ fPc[1] = "testing" /\ fPc'[1] = "testing"
          => failoverAttempts'[1] = failoverAttempts[1] + 1 \/ UNCHANGED failVars
     /\ fPc[1] = "testing" /\ fPc'[1] = "failed"
          => /\ failoverAttempts'[1] = Len(endpoints) - 1
             /\ currentEndpointIndex' = startIndex[1]
     /\ fPc[1] = "testing" /\ fPc'[1] \in {"testing", "failed"}
          => UNCHANGED <<activePoolKey, db>>]_vars

\* The call started at the second endpoint, tested the third and the first,
\* and threw: the client is as it was.
C38_Witness ==
  /\ fPc[1] = "failed"
  /\ startIndex[1] = 1
  /\ failoverAttempts[1] = Len(endpoints) - 1
  /\ currentEndpointIndex = 1
  /\ activePoolKey # 0

\* C39: from the call of destroy() on no probe cycle starts, and when
\* destroy() has returned the timer is cleared and end() has been called on
\* the pool of every endpoint.
C39_DestroyStopsProbes ==
  [][/\ destroyPc' = "done" => ~timerOn' /\ \A e \in Eps : ended'[e]
     /\ destroyPc # "none" => ~(probing = {} /\ probing' # {})]_vars

\* destroy() was called when the timer was due, and has returned: the cycle
\* that was due has not started.
C39_Witness ==
  /\ destroyPc = "done"
  /\ sinceProbe = IntervalMs
  /\ probing = {}
  /\ \A e \in Eps : ended[e]

=============================================================================
